---- MODULE Spec2Model ----
(***************************************************************************)
(* Model of Plugin.Exec (plugin.go): recipient resolution, the fatal       *)
(* pre-dispatch pipeline (client construction, rendering), and the SMTP    *)
(* session (dial, per-recipient loop, deferred close).                     *)
(*                                                                         *)
(* One run of Exec is one behaviour.  The configuration is chosen in Init  *)
(* and never changes; outcomes of external calls (NewClient, templates,    *)
(* dial, send) are chosen when the call is made.                           *)
(*                                                                         *)
(* Spec explores the recipient configurations, SpecAttach the attachment   *)
(* configurations and SpecTLS the client options; all three share Next.    *)
(***************************************************************************)
EXTENDS Bags, FiniteSets, Integers, Sequences, TLC

\* ---------------------------------------------------------------- bounds
MaxRecipients == 2      \* longest Config.Recipients list explored
MaxFileLines  == 2      \* longest recipients file explored (in lines)

\* Address strings explored.  "" is the empty entry, "bad" has no '@' and
\* is rejected by the mail library's address parser, "A@x.com" differs from
\* "a@x.com" only in case.
Addrs == {"", "a@x.com", "A@x.com", "bad"}

\* Sender addresses and display names explored.
FromAddrs == {"ci@x.com", "bad"}
FromNames == {"", "CI"}

\* Recipients-file paths explored ("" = not configured).
FilePaths == {"", "rcpts.txt"}

MaxAttachments == 2    \* longest Config.Attachments list explored

\* Attachment paths explored, and the ones os.Stat finds on disk.
Paths  == {"report.txt", "missing.txt"}
OnDisk == {"report.txt"}

\* Credentials and HELO hostnames explored ("" = not configured).
Usernames == {"", "user"}
Passwords == {"", "secret"}
Hostnames == {"", "ci.local"}

\* Content of a file that cannot be opened.
NoFile == <<"ENOENT">>

SeqsUpTo(S, n) == UNION {[1..k -> S] : k \in 0..n}

\* ------------------------------------------------------------------ state
VARIABLES
    Recipients,      \* p.Config.Recipients
    RecipientsOnly,  \* p.Config.RecipientsOnly
    RecipientsFile,  \* p.Config.RecipientsFile
    AuthorEmail,     \* p.Commit.Author.Email
    FromAddress,     \* p.Config.FromAddress
    FromName,        \* p.Config.FromName
    Attachment,      \* p.Config.Attachment
    Attachments,     \* p.Config.Attachments
    NoStartTLS,      \* p.Config.NoStartTLS
    SkipVerify,      \* p.Config.SkipVerify
    Username,        \* p.Config.Username
    Password,        \* p.Config.Password
    ClientHostname,  \* p.Config.ClientHostname
    fileOpens,       \* whether os.Open(RecipientsFile) succeeds
    fileLines,       \* the tokens scanner.Text() yields, in order
    pc,              \* position of Exec
    i,               \* index of the range loop over Config.Recipients
    j,               \* number of lines the scanner has consumed
    recipientsMap,   \* bag of the map's entries, by key
    remaining,       \* entries the range loop over the map has yet to visit
    order,           \* recipients in the order the loop visited them
    attempts,        \* bag: client.Send calls per recipient
    sent,            \* bag: successful client.Send calls per recipient
    msgs,            \* the messages handed to client.Send, in order
    options,         \* the mail.Option list passed to mail.NewClient
    trace,           \* the fatal operations called so far, in order
    conn,            \* "none", "open" or "closed"
    dials,           \* number of DialWithContext calls
    closes,          \* number of client.Close calls
    deferred,        \* whether `defer client.Close()` is registered
    failed,          \* operations that have returned an error so far
    err              \* the value Exec returns

config == <<Recipients, RecipientsOnly, RecipientsFile, AuthorEmail,
            FromAddress, FromName, fileOpens, fileLines,
            Attachment, Attachments,
            NoStartTLS, SkipVerify, Username, Password, ClientHostname>>
resolve == <<i, j, recipientsMap>>
session == <<remaining, order, attempts, sent, msgs, conn, dials, closes,
             deferred>>
vars == <<config, resolve, session, pc, failed, err, options, trace>>

NoErr == [op |-> "nil", rcpt |-> ""]
Error(op, r) == [op |-> op, rcpt |-> r]

\* ---------------------------------------------------------------- helpers
\* Variant: keys are compared without regard to case.
MapInsertFoldingCase(m, k) ==
    LET folded == IF k = "A@x.com" THEN "a@x.com" ELSE k
    IN  IF BagIn(folded, m) THEN m ELSE m (+) SetToBag({folded})

\* recipientsMap[k] = struct{}{}: a map holds one entry per key.
MapInsert(m, k) == IF BagIn(k, m) THEN m ELSE m (+) SetToBag({k})

Keys(m) == BagToSet(m)

\* Variant: the empty-entry guard is missing.
AddRecipientUnguarded(m, recipient) == MapInsert(m, recipient)

\* The guard of lines 125 and 148.
AddRecipient(m, recipient) ==
    IF recipient = "" THEN m ELSE MapInsert(m, recipient)

\* Variant: the author is added whatever RecipientsOnly says.
AddAuthorIgnoringFlag(m) ==
    IF AuthorEmail # "" THEN MapInsert(m, AuthorEmail) ELSE m

\* Variant: the author's email is inserted without the emptiness test.
AddAuthorUnguarded(m) ==
    IF ~RecipientsOnly THEN m (+) SetToBag({AuthorEmail}) ELSE m

\* Lines 133-139.
AddAuthor(m) ==
    IF ~RecipientsOnly
    THEN IF AuthorEmail # "" THEN MapInsert(m, AuthorEmail) ELSE m
    ELSE m

\* net/mail address parsing as used by msg.From / msg.FromFormat / msg.To.
ParsesAsAddress(a) == a \notin {"", "bad"}

\* Variant: the error of msg.FromFormat is dropped.
SetFromFormatUnchecked ==
    IF FromName # "" THEN TRUE
                     ELSE ParsesAsAddress(FromAddress)

\* Lines 264-274: both branches fail exactly when the address is rejected.
SetFrom ==
    IF FromName # "" THEN ParsesAsAddress(FromAddress)
                     ELSE ParsesAsAddress(FromAddress)

\* Line 277.
SetTo(recipient) == ParsesAsAddress(recipient)

\* os.Stat(path) returns no error.
Exists(path) == path \in OnDisk

\* Variant: the files are attached without the os.Stat test.
MsgAttachmentsUnchecked ==
    (IF Attachment # "" THEN <<Attachment>> ELSE <<>>) \o Attachments

\* Lines 289-301: the files attached to one message, in order.
MsgAttachments ==
    (IF Attachment # "" /\ Exists(Attachment) THEN <<Attachment>> ELSE <<>>)
        \o SelectSeq(Attachments, Exists)

\* Lines 261-301: the message built for `recipient`.
NewMsg(recipient) == [to |-> recipient, attach |-> MsgAttachments]

\* Variant: NoStartTLS is honoured only when certificates are verified.
PolicyOptionUnlessSkipVerify ==
    IF NoStartTLS /\ ~SkipVerify
    THEN <<"WithTLSPortPolicy(NoTLS)">>
    ELSE <<"WithTLSPortPolicy(TLSOpportunistic)">>

\* Lines 188-192: the STARTTLS policy option.
PolicyOption ==
    IF NoStartTLS THEN <<"WithTLSPortPolicy(NoTLS)">>
                  ELSE <<"WithTLSPortPolicy(TLSOpportunistic)">>

\* Lines 162-192: the options handed to mail.NewClient, in order.
BuildOptions ==
    <<"WithPort">>
        \o (IF ClientHostname # "" THEN <<"WithHELO">> ELSE <<>>)
        \o (IF Username # "" /\ Password # ""
            THEN <<"WithSMTPAuth(Plain)", "WithUsername", "WithPassword">>
            ELSE <<>>)
        \o (IF SkipVerify THEN <<"WithTLSConfig(InsecureSkipVerify)">> ELSE <<>>)
        \o PolicyOption

\* Variant: the connection is closed after the loop instead of by defer.
ReturnClosingOnSuccessOnly(e) ==
    /\ pc' = "done"
    /\ err' = e
    /\ IF deferred /\ e = NoErr
       THEN /\ conn' = "closed"
            /\ closes' = closes + 1
       ELSE UNCHANGED <<conn, closes>>
    /\ deferred' = FALSE

\* A return statement: deferred calls run before Exec returns.
Return(e) ==
    /\ pc' = "done"
    /\ err' = e
    /\ IF deferred
       THEN /\ conn' = "closed"
            /\ closes' = closes + 1
       ELSE UNCHANGED <<conn, closes>>
    /\ deferred' = FALSE

\* ------------------------------------------------------------------- Init
\* The state of Exec on entry, whatever the configuration.
InitState ==
    /\ pc = "recipients"
    /\ i = 1
    /\ j = 0
    /\ recipientsMap = EmptyBag
    /\ remaining = EmptyBag
    /\ order = <<>>
    /\ attempts = EmptyBag
    /\ sent = EmptyBag
    /\ msgs = <<>>
    /\ conn = "none"
    /\ dials = 0
    /\ closes = 0
    /\ deferred = FALSE
    /\ failed = {}
    /\ err = NoErr
    /\ options = <<>>
    /\ trace = <<>>

\* The recipients file is either not configured, or cannot be opened, or
\* holds one of `contents`.
FileInputs(contents) ==
    /\ RecipientsFile \in FilePaths
    /\ fileOpens \in BOOLEAN
    /\ fileLines \in contents \cup {NoFile}
    /\ (RecipientsFile = "") => (~fileOpens /\ fileLines = NoFile)
    /\ fileOpens <=> (fileLines # NoFile)

NoAttachments == Attachment = "" /\ Attachments = <<>>

DefaultClientConfig ==
    /\ NoStartTLS = FALSE
    /\ SkipVerify = FALSE
    /\ Username = ""
    /\ Password = ""
    /\ ClientHostname = ""

\* Runs over every recipient configuration, with no attachments and the
\* default client settings.
Init ==
    /\ Recipients \in SeqsUpTo(Addrs, MaxRecipients)
    /\ RecipientsOnly \in BOOLEAN
    /\ AuthorEmail \in Addrs
    /\ FromAddress \in FromAddrs
    /\ FromName \in FromNames
    /\ FileInputs(SeqsUpTo(Addrs, MaxFileLines))
    /\ NoAttachments
    /\ DefaultClientConfig
    /\ InitState

\* A few recipient configurations, enough to take every path of Exec.
FewRecipients ==
    /\ Recipients \in {<<>>, <<"a@x.com">>, <<"", "bad">>}
    /\ RecipientsOnly \in BOOLEAN
    /\ AuthorEmail \in {"", "A@x.com"}
    /\ FromAddress \in FromAddrs
    /\ FromName \in FromNames
    /\ FileInputs({<<>>, <<"a@x.com">>})

\* Runs over every attachment configuration.
InitAttach ==
    /\ FewRecipients
    /\ Attachment \in {""} \cup Paths
    /\ Attachments \in SeqsUpTo(Paths, MaxAttachments)
    /\ DefaultClientConfig
    /\ InitState

\* Runs over every client configuration.
InitTLS ==
    /\ FewRecipients
    /\ NoAttachments
    /\ NoStartTLS \in BOOLEAN
    /\ SkipVerify \in BOOLEAN
    /\ Username \in Usernames
    /\ Password \in Passwords
    /\ ClientHostname \in Hostnames
    /\ InitState

\* ------------------------------------------------------ recipient resolution
\* Lines 124-130, one iteration.
ConfigRecipient ==
    /\ pc = "recipients"
    /\ i <= Len(Recipients)
    /\ recipientsMap' = AddRecipient(recipientsMap, Recipients[i])
    /\ i' = i + 1
    /\ UNCHANGED <<config, session, pc, j, failed, err>>
    /\ UNCHANGED <<options, trace>>

\* Line 124, range exhausted.
ConfigRecipientsDone ==
    /\ pc = "recipients"
    /\ i > Len(Recipients)
    /\ pc' = "author"
    /\ UNCHANGED <<config, resolve, session, failed, err>>
    /\ UNCHANGED <<options, trace>>

\* Lines 133-139.
CommitAuthor ==
    /\ pc = "author"
    /\ recipientsMap' = AddAuthor(recipientsMap)
    /\ pc' = "file"
    /\ UNCHANGED <<config, session, i, j, failed, err>>
    /\ UNCHANGED <<options, trace>>

\* Line 142 false: no recipients file configured.
NoRecipientsFile ==
    /\ pc = "file"
    /\ RecipientsFile = ""
    /\ pc' = "client"
    /\ UNCHANGED <<config, resolve, session, failed, err>>
    /\ UNCHANGED <<options, trace>>

\* Lines 143-145: the open succeeds.
OpenFile ==
    /\ pc = "file"
    /\ RecipientsFile # ""
    /\ fileOpens
    /\ pc' = "scan"
    /\ UNCHANGED <<config, resolve, session, failed, err>>
    /\ UNCHANGED <<options, trace>>

\* Variant: a recipients file that cannot be opened aborts the run.
OpenFileFailsFatally ==
    /\ pc = "file"
    /\ RecipientsFile # ""
    /\ ~fileOpens
    /\ failed' = failed \cup {"open"}
    /\ Return(Error("open", ""))
    /\ UNCHANGED <<config, resolve, remaining, order, attempts, sent, msgs,
                   dials>>
    /\ UNCHANGED <<options, trace>>

\* Lines 143, 154-156: the open fails; logged, not returned.
OpenFileFails ==
    /\ pc = "file"
    /\ RecipientsFile # ""
    /\ ~fileOpens
    /\ failed' = failed \cup {"open"}
    /\ pc' = "client"
    /\ UNCHANGED <<config, resolve, session, err>>
    /\ UNCHANGED <<options, trace>>

\* Lines 146-153, one line of the file.
ScanLine ==
    /\ pc = "scan"
    /\ j < Len(fileLines)
    /\ recipientsMap' = AddRecipient(recipientsMap, fileLines[j + 1])
    /\ j' = j + 1
    /\ UNCHANGED <<config, session, pc, i, failed, err>>
    /\ UNCHANGED <<options, trace>>

\* Line 146: scanner.Scan() returns false.
ScanDone ==
    /\ pc = "scan"
    /\ j >= Len(fileLines)
    /\ pc' = "client"
    /\ UNCHANGED <<config, resolve, session, failed, err>>
    /\ UNCHANGED <<options, trace>>

\* ------------------------------------------------- fatal pre-dispatch steps
\* Variant: the error is logged but `return err` is missing.
FatalStepNoReturn(op, next, ok) ==
    /\ failed' = IF ok THEN failed ELSE failed \cup {op}
    /\ pc' = next
    /\ UNCHANGED <<session, err>>

\* Variant: the subject is not rendered before the dial.
FatalStepSkippingSubject(op, next, ok) ==
    IF ok
    THEN /\ pc' = IF next = "subject" THEN "dial" ELSE next
         /\ UNCHANGED <<session, failed, err>>
    ELSE /\ failed' = failed \cup {op}
         /\ Return(Error(op, ""))
         /\ UNCHANGED <<remaining, order, attempts, sent, msgs, dials>>

\* `x, err := f(...); if err != nil { log; return err }`: on failure Exec
\* returns the error, otherwise it moves on to the statement at `next`.
FatalStep(op, next, ok) ==
    IF ok
    THEN /\ pc' = next
         /\ UNCHANGED <<session, failed, err>>
    ELSE /\ failed' = failed \cup {op}
         /\ Return(Error(op, ""))
         /\ UNCHANGED <<remaining, order, attempts, sent, msgs, dials>>

\* Lines 162-198: build the option list, then construct the client.
NewClient ==
    /\ pc = "client"
    /\ \E ok \in BOOLEAN : FatalStep("client", "body", ok)
    /\ UNCHANGED <<config, resolve>>
    /\ options' = BuildOptions
    /\ trace' = Append(trace, "client")

\* Lines 227-231.
RenderBody ==
    /\ pc = "body"
    /\ \E ok \in BOOLEAN : FatalStep("body", "inline", ok)
    /\ UNCHANGED <<config, resolve>>
    /\ trace' = Append(trace, "body")
    /\ UNCHANGED options

\* Lines 233-237.
InlineCSS ==
    /\ pc = "inline"
    /\ \E ok \in BOOLEAN : FatalStep("inline", "text", ok)
    /\ UNCHANGED <<config, resolve>>
    /\ trace' = Append(trace, "inline")
    /\ UNCHANGED options

\* Lines 239-243.
HTMLToText ==
    /\ pc = "text"
    /\ \E ok \in BOOLEAN : FatalStep("text", "subject", ok)
    /\ UNCHANGED <<config, resolve>>
    /\ trace' = Append(trace, "text")
    /\ UNCHANGED options

\* Lines 246-250.
RenderSubject ==
    /\ pc = "subject"
    /\ \E ok \in BOOLEAN : FatalStep("subject", "dial", ok)
    /\ UNCHANGED <<config, resolve>>
    /\ trace' = Append(trace, "subject")
    /\ UNCHANGED options

\* ---------------------------------------------------------------- session
\* Variant: `defer client.Close()` is placed before the dial's error check.
DialStepDeferFirst(ok) ==
    /\ dials' = dials + 1
    /\ IF ok
       THEN /\ conn' = "open"
            /\ deferred' = TRUE
            /\ remaining' = recipientsMap
            /\ pc' = "loop"
            /\ UNCHANGED <<closes, failed, err>>
       ELSE /\ failed' = failed \cup {"dial"}
            /\ pc' = "done"
            /\ err' = Error("dial", "")
            /\ conn' = conn
            /\ closes' = closes + 1
            /\ deferred' = FALSE
            /\ UNCHANGED remaining
    /\ UNCHANGED <<order, attempts, sent, msgs>>

\* Variant: a failed dial is logged and Exec goes on to the loop.
DialStepIgnoringError(ok) ==
    /\ dials' = dials + 1
    /\ conn' = IF ok THEN "open" ELSE conn
    /\ deferred' = ok
    /\ failed' = IF ok THEN failed ELSE failed \cup {"dial"}
    /\ remaining' = recipientsMap
    /\ pc' = "loop"
    /\ UNCHANGED <<closes, err, order, attempts, sent, msgs>>

\* Variant: the From address is validated once, right after the dial.
DialStepValidatingFrom(ok) ==
    /\ dials' = dials + 1
    /\ IF ok
       THEN IF SetFrom
            THEN /\ conn' = "open"
                 /\ deferred' = TRUE
                 /\ remaining' = recipientsMap
                 /\ pc' = "loop"
                 /\ UNCHANGED <<closes, failed, err>>
            ELSE /\ failed' = failed \cup {"from"}
                 /\ pc' = "done"
                 /\ err' = Error("from", "")
                 /\ conn' = "closed"
                 /\ closes' = closes + 1
                 /\ deferred' = FALSE
                 /\ UNCHANGED remaining
       ELSE /\ failed' = failed \cup {"dial"}
            /\ Return(Error("dial", ""))
            /\ UNCHANGED remaining
    /\ UNCHANGED <<order, attempts, sent, msgs>>

\* Lines 253-257: dial once; on success register the deferred close and
\* enter the range loop over the map.
DialStep(ok) ==
    /\ dials' = dials + 1
    /\ IF ok
       THEN /\ conn' = "open"
            /\ deferred' = TRUE
            /\ remaining' = recipientsMap
            /\ pc' = "loop"
            /\ UNCHANGED <<closes, failed, err>>
       ELSE /\ failed' = failed \cup {"dial"}
            /\ Return(Error("dial", ""))
            /\ UNCHANGED remaining
    /\ UNCHANGED <<order, attempts, sent, msgs>>

Dial ==
    /\ pc = "dial"
    /\ \E ok \in BOOLEAN : DialStep(ok)
    /\ UNCHANGED <<config, resolve>>
    /\ trace' = Append(trace, "dial")
    /\ UNCHANGED options

\* Variant: a failed send is logged and the loop goes on.
LoopBodySendContinues(recipient, sendOK) ==
    /\ order' = Append(order, recipient)
    /\ IF ~SetFrom
       THEN /\ failed' = failed \cup {"from"}
            /\ Return(Error("from", recipient))
            /\ UNCHANGED <<remaining, attempts, sent, msgs>>
       ELSE IF ~SetTo(recipient)
       THEN /\ failed' = failed \cup {"to"}
            /\ Return(Error("to", recipient))
            /\ UNCHANGED <<remaining, attempts, sent, msgs>>
       ELSE /\ attempts' = attempts (+) SetToBag({recipient})
            /\ msgs' = Append(msgs, NewMsg(recipient))
            /\ failed' = IF sendOK THEN failed ELSE failed \cup {"send"}
            /\ sent' = IF sendOK THEN sent (+) SetToBag({recipient}) ELSE sent
            /\ remaining' = remaining (-) SetToBag({recipient})
            /\ UNCHANGED <<pc, conn, closes, deferred, err>>
    /\ UNCHANGED dials

\* Variant: a recipient whose To header cannot be set is skipped.
LoopBodyToSkips(recipient, sendOK) ==
    /\ order' = Append(order, recipient)
    /\ IF ~SetFrom
       THEN /\ failed' = failed \cup {"from"}
            /\ Return(Error("from", recipient))
            /\ UNCHANGED <<remaining, attempts, sent, msgs>>
       ELSE IF ~SetTo(recipient)
       THEN /\ failed' = failed \cup {"to"}
            /\ remaining' = remaining (-) SetToBag({recipient})
            /\ UNCHANGED <<pc, conn, closes, deferred, err, attempts, sent, msgs>>
       ELSE /\ attempts' = attempts (+) SetToBag({recipient})
            /\ msgs' = Append(msgs, NewMsg(recipient))
            /\ IF ~sendOK
               THEN /\ failed' = failed \cup {"send"}
                    /\ Return(Error("send", recipient))
                    /\ UNCHANGED <<remaining, sent>>
               ELSE /\ sent' = sent (+) SetToBag({recipient})
                    /\ remaining' = remaining (-) SetToBag({recipient})
                    /\ UNCHANGED <<pc, conn, closes, deferred, failed, err>>
    /\ UNCHANGED dials

\* Variant: a failed send is retried once before giving up.
LoopBodyRetryingSend(recipient, sendOK) ==
    /\ order' = Append(order, recipient)
    /\ IF ~SetFrom
       THEN /\ failed' = failed \cup {"from"}
            /\ Return(Error("from", recipient))
            /\ UNCHANGED <<remaining, attempts, sent, msgs>>
       ELSE IF ~SetTo(recipient)
       THEN /\ failed' = failed \cup {"to"}
            /\ Return(Error("to", recipient))
            /\ UNCHANGED <<remaining, attempts, sent, msgs>>
       ELSE IF ~sendOK
       THEN /\ attempts' = attempts (+) SetToBag({recipient})
                                   (+) SetToBag({recipient})
            /\ msgs' = Append(msgs, NewMsg(recipient))
            /\ failed' = failed \cup {"send"}
            /\ Return(Error("send", recipient))
            /\ UNCHANGED <<remaining, sent>>
       ELSE /\ attempts' = attempts (+) SetToBag({recipient})
            /\ msgs' = Append(msgs, NewMsg(recipient))
            /\ sent' = sent (+) SetToBag({recipient})
            /\ remaining' = remaining (-) SetToBag({recipient})
            /\ UNCHANGED <<pc, conn, closes, deferred, failed, err>>
    /\ UNCHANGED dials

\* Variant: the connection is closed after each message instead of by defer.
LoopBodyClosingAfterSend(recipient, sendOK) ==
    /\ order' = Append(order, recipient)
    /\ IF ~SetFrom
       THEN /\ failed' = failed \cup {"from"}
            /\ Return(Error("from", recipient))
            /\ UNCHANGED <<remaining, attempts, sent, msgs>>
       ELSE IF ~SetTo(recipient)
       THEN /\ failed' = failed \cup {"to"}
            /\ Return(Error("to", recipient))
            /\ UNCHANGED <<remaining, attempts, sent, msgs>>
       ELSE /\ attempts' = attempts (+) SetToBag({recipient})
            /\ msgs' = Append(msgs, NewMsg(recipient))
            /\ IF ~sendOK
               THEN /\ failed' = failed \cup {"send"}
                    /\ Return(Error("send", recipient))
                    /\ UNCHANGED <<remaining, sent>>
               ELSE /\ sent' = sent (+) SetToBag({recipient})
                    /\ remaining' = remaining (-) SetToBag({recipient})
                    /\ conn' = "closed"
                    /\ closes' = IF conn = "open" THEN closes + 1 ELSE closes
                    /\ deferred' = FALSE
                    /\ UNCHANGED <<pc, failed, err>>
    /\ UNCHANGED dials

\* Lines 260-308, one iteration for map entry `recipient`; sendOK is the
\* outcome client.Send would have.
LoopBody(recipient, sendOK) ==
    /\ order' = Append(order, recipient)
    /\ IF ~SetFrom
       THEN /\ failed' = failed \cup {"from"}
            /\ Return(Error("from", recipient))
            /\ UNCHANGED <<remaining, attempts, sent, msgs>>
       ELSE IF ~SetTo(recipient)
       THEN /\ failed' = failed \cup {"to"}
            /\ Return(Error("to", recipient))
            /\ UNCHANGED <<remaining, attempts, sent, msgs>>
       ELSE /\ attempts' = attempts (+) SetToBag({recipient})
            /\ msgs' = Append(msgs, NewMsg(recipient))
            /\ IF ~sendOK
               THEN /\ failed' = failed \cup {"send"}
                    /\ Return(Error("send", recipient))
                    /\ UNCHANGED <<remaining, sent>>
               ELSE /\ sent' = sent (+) SetToBag({recipient})
                    /\ remaining' = remaining (-) SetToBag({recipient})
                    /\ UNCHANGED <<pc, conn, closes, deferred, failed, err>>
    /\ UNCHANGED dials

\* Variant: the entries are visited in one fixed order.
NextEntriesInFixedOrder(rem) ==
    IF Keys(rem) = {} THEN {} ELSE {CHOOSE k \in Keys(rem) : TRUE}

\* Line 260: the entries a range over a map may yield next, which is any of
\* those not yet visited.
NextEntries(rem) == Keys(rem)

\* The range loop visits the remaining entries in no particular order.
SendLoop ==
    /\ pc = "loop"
    /\ \E recipient \in NextEntries(remaining) :
         \E sendOK \in BOOLEAN : LoopBody(recipient, sendOK)
    /\ UNCHANGED <<config, resolve, options, trace>>

\* Variant: the loop stops one entry early.
LoopExhaustedEarly == Cardinality(Keys(remaining)) <= 1

\* The guard under which the range loop is exhausted.
LoopExhausted == remaining = EmptyBag

\* Line 310: return nil.
SendLoopDone ==
    /\ pc = "loop"
    /\ LoopExhausted
    /\ Return(NoErr)
    /\ UNCHANGED <<config, resolve, remaining, order, attempts, sent,
                   msgs, dials, failed, options, trace>>

\* ------------------------------------------------------------------- Next
Next ==
    \/ ConfigRecipient
    \/ ConfigRecipientsDone
    \/ CommitAuthor
    \/ NoRecipientsFile
    \/ OpenFile
    \/ OpenFileFails
    \/ ScanLine
    \/ ScanDone
    \/ NewClient
    \/ RenderBody
    \/ InlineCSS
    \/ HTMLToText
    \/ RenderSubject
    \/ Dial
    \/ SendLoop
    \/ SendLoopDone

Spec == Init /\ [][Next]_vars

SpecAttach == InitAttach /\ [][Next]_vars

SpecTLS == InitTLS /\ [][Next]_vars

TypeOK ==
    /\ pc \in {"recipients", "author", "file", "scan", "client", "body",
               "inline", "text", "subject", "dial", "loop", "done"}
    /\ conn \in {"none", "open", "closed"}
    /\ dials \in 0..1
    /\ closes \in 0..1
    /\ IsABag(recipientsMap) /\ IsABag(remaining)
    /\ IsABag(attempts) /\ IsABag(sent)
    /\ Len(msgs) = BagCardinality(attempts)
    /\ Len(trace) <= 6

\* ------------------------------------------------------------- properties
Range(s) == {s[n] : n \in 1..Len(s)}

Last(s) == s[Len(s)]

\* Resolution is finished once Exec has moved on to client construction.
Resolved == pc \notin {"recipients", "author", "file", "scan"}

\* The entries of the recipients file, when it is configured and opens.
FileEntries == IF RecipientsFile # "" /\ fileOpens THEN Range(fileLines) ELSE {}

\* C1: in every state of a run, during resolution and after it, the
\* recipient set holds no empty string and holds no address twice.
C1_NoEmptyNoDuplicate ==
    /\ "" \notin Keys(recipientsMap)
    /\ \A a \in Keys(recipientsMap) : CopiesIn(a, recipientsMap) = 1

C1_Witness ==
    /\ Resolved
    /\ "" \in Range(Recipients)
    /\ "" \in FileEntries
    /\ \E a \in Keys(recipientsMap) : a \in Range(Recipients) /\ a \in FileEntries

\* C2 as stated: with RecipientsOnly set and a non-empty author email that
\* is not in Config.Recipients, the resolved set excludes the author,
\* whatever the recipients file holds.
C2_AuthorExcludedForAnyFile ==
    (Resolved /\ RecipientsOnly /\ AuthorEmail # ""
        /\ AuthorEmail \notin Range(Recipients))
    => AuthorEmail \notin Keys(recipientsMap)

\* C2 amended: with RecipientsOnly set and a non-empty author email, the
\* recipient set excludes the author unless the address is in
\* Config.Recipients or is a line of a recipients file that opened.
C2_AuthorExcluded ==
    (RecipientsOnly /\ AuthorEmail # ""
        /\ AuthorEmail \notin Range(Recipients)
        /\ AuthorEmail \notin FileEntries)
    => AuthorEmail \notin Keys(recipientsMap)

C2_Witness ==
    /\ Resolved
    /\ RecipientsOnly
    /\ AuthorEmail # ""
    /\ AuthorEmail \notin Range(Recipients)
    /\ FileEntries \ {""} # {}
    /\ AuthorEmail \notin FileEntries
    /\ Keys(recipientsMap) # {}

\* C3: with RecipientsOnly false and an empty author email, the author step
\* inserts nothing, records no failure, returns no error and hands over to
\* the recipients-file step; the resolved set is the one built from
\* Config.Recipients and the file alone.
C3_EmptyAuthorOmitted ==
    /\ [][(pc = "author" /\ ~RecipientsOnly /\ AuthorEmail = "")
            => (/\ recipientsMap' = recipientsMap
                /\ pc' = "file"
                /\ failed' = failed
                /\ err' = NoErr)]_vars
    /\ []((Resolved /\ ~RecipientsOnly /\ AuthorEmail = "")
            => Keys(recipientsMap) = (Range(Recipients) \cup FileEntries) \ {""})

C3_Witness ==
    /\ pc = "body"
    /\ ~RecipientsOnly
    /\ AuthorEmail = ""
    /\ Keys(recipientsMap) # {}
    /\ err = NoErr

\* C4: when the send for the k-th recipient visited fails, Exec has returned
\* that send's error, the k-1 recipients visited before it were each sent
\* exactly one message, and no recipient after it was sent or attempted.
C4_SendFailureAborts ==
    ("send" \in failed) =>
        /\ pc = "done"
        /\ err = Error("send", Last(order))
        /\ CopiesIn(Last(order), attempts) = 1
        /\ \A n \in 1..(Len(order) - 1) :
              /\ CopiesIn(order[n], sent) = 1
              /\ CopiesIn(order[n], attempts) = 1
        /\ \A a \in Keys(recipientsMap) \ Range(order) :
              /\ CopiesIn(a, sent) = 0
              /\ CopiesIn(a, attempts) = 0

C4_Witness ==
    /\ "send" \in failed
    /\ Len(order) = 2
    /\ Cardinality(Keys(recipientsMap)) = 3
    /\ Cardinality(Keys(sent)) = 1

\* C5: once the dial has succeeded the connection stays open, with no close
\* yet, for as long as Exec runs, and has been closed exactly once when Exec
\* has returned, whichever way it returned.
C5_ClosedExactlyOnce ==
    (dials = 1 /\ "dial" \notin failed) =>
        IF pc = "done" THEN conn = "closed" /\ closes = 1
                       ELSE conn = "open" /\ closes = 0

C5_Witness ==
    /\ pc = "done"
    /\ err.op \in {"from", "to", "send"}
    /\ Len(order) >= 2
    /\ closes = 1

\* C6: when the dial fails Exec returns the dial error, no send is
\* attempted, and close is never invoked.
C6_DialFailure ==
    ("dial" \in failed) =>
        /\ pc = "done"
        /\ err = Error("dial", "")
        /\ attempts = EmptyBag
        /\ sent = EmptyBag
        /\ closes = 0
        /\ conn = "none"

C6_Witness ==
    /\ "dial" \in failed
    /\ Cardinality(Keys(recipientsMap)) >= 2

\* The fatal operations that precede the dial.
PreDispatchOps == {"client", "body", "inline", "text", "subject"}

\* C7: when client construction, body rendering, CSS inlining, text
\* extraction or subject rendering fails, Exec has returned that error and
\* no message was sent or attempted for any recipient.
C7_PreDispatchFailureSendsNothing ==
    \A op \in PreDispatchOps :
        (op \in failed) =>
            /\ pc = "done"
            /\ err = Error(op, "")
            /\ sent = EmptyBag
            /\ attempts = EmptyBag
            /\ dials = 0

C7_Witness ==
    /\ "text" \in failed
    /\ Cardinality(Keys(recipientsMap)) >= 2

\* C8: when Exec returns nil, every address of the resolved set was sent
\* exactly one message, no other address was sent any, and all of it went
\* over the one connection that was dialled.
C8_SuccessSendsToAll ==
    (pc = "done" /\ err = NoErr) =>
        /\ \A a \in Addrs :
              CopiesIn(a, sent) = IF a \in Keys(recipientsMap) THEN 1 ELSE 0
        /\ attempts = sent
        /\ dials = 1

C8_Witness ==
    /\ pc = "done"
    /\ err = NoErr
    /\ Cardinality(Keys(recipientsMap)) = 2
    /\ Len(Recipients) = 2
    /\ FileEntries # {}

\* C9 as stated: every run that dialled with an invalid From address returns
\* an error and sends nothing, whatever the resolved set.
C9_InvalidFromAlwaysFatal ==
    (pc = "done" /\ conn # "none" /\ ~ParsesAsAddress(FromAddress))
    => (err # NoErr /\ sent = EmptyBag)

\* C9 amended: every run that dialled with an invalid From address and a
\* non-empty resolved set returns the From error of the first recipient
\* visited, and no message is sent or attempted.
C9_InvalidFromFatal ==
    (pc = "done" /\ conn # "none" /\ ~ParsesAsAddress(FromAddress)
        /\ Keys(recipientsMap) # {})
    => (/\ err = Error("from", order[1])
        /\ Len(order) = 1
        /\ sent = EmptyBag
        /\ attempts = EmptyBag)

C9_Witness ==
    /\ pc = "done"
    /\ conn # "none"
    /\ ~ParsesAsAddress(FromAddress)
    /\ FromName # ""
    /\ Cardinality(Keys(recipientsMap)) >= 2

\* C10: when setting the To header fails for a recipient, Exec has returned
\* that error, that recipient was sent nothing, no recipient after it was
\* processed, and those visited before it keep their one message.
C10_MalformedRecipientFatal ==
    ("to" \in failed) =>
        /\ pc = "done"
        /\ err = Error("to", Last(order))
        /\ CopiesIn(Last(order), sent) = 0
        /\ CopiesIn(Last(order), attempts) = 0
        /\ \A n \in 1..(Len(order) - 1) : CopiesIn(order[n], sent) = 1
        /\ \A a \in Keys(recipientsMap) \ Range(order) :
              /\ CopiesIn(a, sent) = 0
              /\ CopiesIn(a, attempts) = 0

C10_Witness ==
    /\ "to" \in failed
    /\ Len(order) = 2
    /\ Cardinality(Keys(recipientsMap)) = 3
    /\ Cardinality(Keys(sent)) = 1

\* The attachment paths the configuration names.
ConfiguredPaths ==
    (IF Attachment # "" THEN {Attachment} ELSE {}) \cup Range(Attachments)

\* C11: every message handed to Send carries exactly the configured paths
\* that exist; a missing path is no error: each recipient whose From and To
\* headers were set got its message built and handed to Send, and a run in
\* which nothing but the recipients-file open failed returns nil.
C11_AttachExistingSkipMissing ==
    /\ \A n \in 1..Len(msgs) :
          /\ Range(msgs[n].attach) \subseteq ConfiguredPaths
          /\ \A path \in ConfiguredPaths :
                (path \in Range(msgs[n].attach)) <=> Exists(path)
    /\ \A n \in 1..Len(order) :
          (SetFrom /\ SetTo(order[n]))
              => \E k \in 1..Len(msgs) : msgs[k].to = order[n]
    /\ (pc = "done" /\ failed \subseteq {"open"}) => err = NoErr

C11_Witness ==
    /\ pc = "done"
    /\ err = NoErr
    /\ Len(msgs) >= 2
    /\ Attachment = "missing.txt"
    /\ Range(Attachments) = Paths
    /\ \A n \in 1..Len(msgs) : msgs[n].attach = <<"report.txt">>

\* The author's address, when the author rule adds one.
AuthorEntry == IF RecipientsOnly THEN {} ELSE {AuthorEmail}

\* C12: when the recipients file is configured and cannot be opened, the
\* failing open inserts nothing, returns nothing and hands over to client
\* construction; the resolved set is the one built from Config.Recipients
\* and the author rule alone, and the open failure is never what Exec
\* returns.
C12_OpenFailureNotFatal ==
    /\ [][(pc = "file" /\ RecipientsFile # "" /\ ~fileOpens)
            => (/\ pc' = "client"
                /\ err' = NoErr
                /\ recipientsMap' = recipientsMap)]_vars
    /\ []((Resolved /\ RecipientsFile # "" /\ ~fileOpens)
            => (/\ "open" \in failed
                /\ err.op # "open"
                /\ Keys(recipientsMap)
                     = (Range(Recipients) \cup AuthorEntry) \ {""}))

C12_Witness ==
    /\ pc = "done"
    /\ "open" \in failed
    /\ err = NoErr
    /\ Cardinality(Keys(sent)) = 2
    /\ AuthorEmail \in Keys(sent)

\* C13 as stated: whenever the recipients-file open, a template render, the
\* dial or a send fails, Exec has returned that error.
C13_EveryIOFailureFatal ==
    \A op \in {"open", "body", "subject", "dial", "send"} :
        (op \in failed) => (pc = "done" /\ err.op = op)

\* C13 amended: whenever a template render, the dial or a send fails, Exec
\* has returned that error and that failure is the only one of the three
\* kinds in the run; a failed recipients-file open is logged and the run
\* goes on.
C13_IOFailureFatal ==
    \A op \in {"body", "subject", "dial", "send"} :
        (op \in failed) =>
            /\ pc = "done"
            /\ err.op = op
            /\ failed \ {"open"} = {op}
            /\ Last(trace) = IF op = "send" THEN "dial" ELSE op

C13_Witness ==
    /\ "open" \in failed
    /\ "dial" \in failed
    /\ pc = "done"
    /\ Keys(recipientsMap) # {}

PolicyOptions ==
    {"WithTLSPortPolicy(NoTLS)", "WithTLSPortPolicy(TLSOpportunistic)",
     "WithTLSPortPolicy(TLSMandatory)"}

IsPolicyOption(o) == o \in PolicyOptions

\* C14: the option list passed to the mail client holds exactly one
\* STARTTLS policy option, and it is "no TLS" when NoStartTLS is set and
\* "opportunistic" otherwise, whatever SkipVerify, the credentials and the
\* HELO hostname are.
C14_PolicyFromNoStartTLSAlone ==
    ("client" \in Range(trace)) =>
        SelectSeq(options, IsPolicyOption) =
            << IF NoStartTLS THEN "WithTLSPortPolicy(NoTLS)"
                             ELSE "WithTLSPortPolicy(TLSOpportunistic)" >>

C14_Witness ==
    /\ pc = "body"
    /\ NoStartTLS
    /\ SkipVerify
    /\ Username # ""
    /\ Password # ""
    /\ ClientHostname # ""
    /\ Len(options) = 7

\* C15: once resolution is finished the recipient set is exactly the
\* non-empty entries of Config.Recipients, the author's address when the
\* author rule adds it, and the non-empty lines of a recipients file that
\* opened, each compared as the exact string; before that it holds nothing
\* from outside this union.
C15_ResolvedSetIsUnion ==
    LET union == (Range(Recipients) \cup AuthorEntry \cup FileEntries) \ {""}
    IN  /\ Keys(recipientsMap) \subseteq union
        /\ Resolved => Keys(recipientsMap) = union

C15_Witness ==
    /\ Resolved
    /\ Range(Recipients) = {"a@x.com"}
    /\ ~RecipientsOnly
    /\ AuthorEmail = "A@x.com"
    /\ FileEntries = {"", "bad"}
    /\ Cardinality(Keys(recipientsMap)) = 3

\* C16: the dial is attempted at most once and a send at most once per
\* recipient, and once a dial or a send has failed neither is attempted
\* again.
C16_NoRetry ==
    /\ [](/\ dials <= 1
          /\ \A a \in Addrs : CopiesIn(a, attempts) <= 1)
    /\ [][("dial" \in failed \/ "send" \in failed)
            => (dials' = dials /\ attempts' = attempts)]_vars

C16_Witness ==
    /\ "send" \in failed
    /\ Len(order) = 1
    /\ Cardinality(Keys(recipientsMap)) = 2
    /\ dials = 1

\* C17: every send is issued on the connection the one successful dial
\* opened, before any close: a step that calls Send starts with the
\* connection open and not yet closed.
C17_SendsInsideSession ==
    [][(attempts' # attempts)
         => (/\ conn = "open"
             /\ dials = 1
             /\ "dial" \notin failed
             /\ closes = 0)]_vars

C17_Witness ==
    /\ pc = "loop"
    /\ conn = "open"
    /\ Len(msgs) = 2
    /\ closes = 0

PreDispatchOrder == <<"client", "body", "inline", "text", "subject">>

\* C18: the fatal operations are called in the order client construction,
\* body rendering, CSS inlining, text extraction, subject rendering, dial;
\* the dial is called only after the five before it succeeded; a run in
\* which one of the five failed never opens or closes a connection; and a
\* template error is returned only by a run whose client construction
\* succeeded.
C18_DialAfterPreparation ==
    /\ trace = SubSeq(PreDispatchOrder \o <<"dial">>, 1, Len(trace))
    /\ (dials > 0) =>
          /\ SubSeq(trace, 1, 5) = PreDispatchOrder
          /\ failed \cap PreDispatchOps = {}
    /\ (failed \cap PreDispatchOps # {}) =>
          /\ conn = "none"
          /\ dials = 0
          /\ closes = 0
    /\ (err.op \in {"body", "inline", "text", "subject"}) =>
          /\ trace[1] = "client"
          /\ "client" \notin failed

C18_Witness ==
    /\ err.op = "inline"
    /\ trace = <<"client", "body", "inline">>
    /\ conn = "none"
    /\ Keys(recipientsMap) # {}

\* C19: when the resolved set is empty and client construction, rendering
\* and the dial all succeed, Exec has dialled once, handed no message to
\* Send, closed the connection once and returned nil, without ever setting
\* a From header, valid or not.
C19_EmptySetSucceeds ==
    (pc = "done" /\ Keys(recipientsMap) = {}
        /\ failed \cap (PreDispatchOps \cup {"dial"}) = {})
    => (/\ err = NoErr
        /\ dials = 1
        /\ closes = 1
        /\ conn = "closed"
        /\ msgs = <<>>
        /\ attempts = EmptyBag
        /\ order = <<>>
        /\ "from" \notin failed)

C19_Witness ==
    /\ pc = "done"
    /\ Keys(recipientsMap) = {}
    /\ ~ParsesAsAddress(FromAddress)
    /\ Recipients # <<>>
    /\ err = NoErr
    /\ closes = 1

\* C20: the loop may visit any entry not yet visited next, and that send
\* may fail or succeed, so a failing recipient can come first (nobody else
\* has mail) or last (everybody else has); whenever a send has failed, its
\* recipient received nothing and Exec returned the error.
C20_OrderNotFixed ==
    /\ (pc = "loop" /\ SetFrom) =>
          \A r \in Keys(remaining) :
              SetTo(r) =>
                  /\ ENABLED (SendLoop /\ order' = Append(order, r)
                                       /\ "send" \in failed')
                  /\ ENABLED (SendLoop /\ order' = Append(order, r)
                                       /\ r \in Keys(sent'))
    /\ ("send" \in failed) =>
          /\ pc = "done"
          /\ err.op = "send"
          /\ err.rcpt \notin Keys(sent)

C20_Witness ==
    /\ "send" \in failed
    /\ Cardinality(Keys(recipientsMap)) = 2
    /\ Keys(sent) = Keys(recipientsMap) \ {err.rcpt}

====
